---- MODULE Spec2Model ----
(***************************************************************************)
(* The CloudFront viewer-request authentication handler of                 *)
(* lib/tools_website-stack.cognito-signup.ts (lines 38-225): the request   *)
(* classifier, the token validator, the two token exchanges and the cookie *)
(* codec, together with the upstream services it awaits.                   *)
(*                                                                         *)
(* A string is a sequence of atoms.  An atom is a run of characters that   *)
(* no encoder touches ("abc", "id_token"), a single reserved character     *)
(* ("/", ":", "=", "%", " ") or a percent escape ("%2F").                  *)
(***************************************************************************)
EXTENDS Integers, Sequences, FiniteSets, TLC

\* ---------------------------------------------------------------- bounds
MaxNow == 1          \* the clock runs 0..MaxNow
MaxHeaders == 1      \* Cookie header instances on one request
MaxMerge == 2        \* Cookie header instances on one request, where only they vary

\* ------------------------------------------------------- string encoders
\* JavaScript's undefined (a missing property), kept apart from every string.
Undefined == <<"<undefined>">>

\* if (x): undefined and the empty string are falsy.
Truthy(v) == v # Undefined /\ v # <<>>

\* encodeURIComponent, one atom at a time (cookie.serialize's default encode).
EncAtom(a) ==
    CASE a = "/" -> <<"%2F">>
      [] a = ":" -> <<"%3A">>
      [] a = "=" -> <<"%3D">>
      [] a = "%" -> <<"%25">>
      [] a = " " -> <<"%20">>
      [] OTHER   -> <<a>>

RECURSIVE EncodeAtoms(_)
EncodeAtoms(s) ==
    IF s = <<>> THEN <<>> ELSE EncAtom(Head(s)) \o EncodeAtoms(Tail(s))

\* encodeURIComponent(String(v)): undefined becomes the text "undefined".
EncodeURIComponent(v) ==
    IF v = Undefined THEN <<"undefined">> ELSE EncodeAtoms(v)

\* decodeURIComponent, one atom at a time; a lone "%" is a malformed escape.
DecAtom(a) ==
    CASE a = "%2F" -> <<"/">>
      [] a = "%3A" -> <<":">>
      [] a = "%3D" -> <<"=">>
      [] a = "%25" -> <<"%">>
      [] a = "%20" -> <<" ">>
      [] OTHER     -> <<a>>

RECURSIVE DecodeAtoms(_)
DecodeAtoms(s) ==
    IF s = <<>> THEN <<>> ELSE DecAtom(Head(s)) \o DecodeAtoms(Tail(s))

\* Variant: cookie values are taken as they stand in the header.
TryDecode_Raw(v) == v

\* cookie.parse's tryDecode: decodeURIComponent, the raw text when it throws.
TryDecode(v) ==
    IF \E i \in 1..Len(v) : v[i] = "%" THEN v ELSE DecodeAtoms(v)

\* application/x-www-form-urlencoded serialisation (URLSearchParams.toString).
FormEncAtom(a) ==
    CASE a = " " -> <<"+">>
      [] a = "+" -> <<"%2B">>
      [] OTHER   -> EncAtom(a)

RECURSIVE FormEncode(_)
FormEncode(v) ==
    IF v = <<>> THEN <<>> ELSE FormEncAtom(Head(v)) \o FormEncode(Tail(v))

\* ---------------------------------------------------------- configuration
VARIABLE env     \* env.json as the deployed bundle holds it (line 40)

\* String(v), as a template literal and URLSearchParams convert a value.
String(v) == IF v = Undefined THEN <<"undefined">> ELSE v

\* The app client as the user pool has it: its secret and its callback URL.
RegisteredSecret == <<"s3cret">>
RegisteredCallback == <<"https", ":", "/", "/", "site.example", "/", "login">>

\* env.json, written by injectPayload at deploy time. The stack always sets the
\* user pool, the domain and the client id; the redirect URI comes from the
\* deployment's context and the secret from the user pool, and either may be
\* missing from the file.
IDENTITY_DOMAIN == <<"auth.example.com">>
CLIENT_ID == <<"abc">>
TOKEN_REDIRECT == String(env.TOKEN_REDIRECT)
CLIENT_SECRET == String(env.CLIENT_SECRET)
USER_POOL == <<"us-east-1_pool">>

CompleteEnv ==
    [USER_POOL |-> USER_POOL, IDENTITY_DOMAIN |-> IDENTITY_DOMAIN,
     TOKEN_REDIRECT |-> RegisteredCallback, CLIENT_ID |-> CLIENT_ID,
     CLIENT_SECRET |-> RegisteredSecret]

tokenURL == <<"https", ":", "/", "/">> \o IDENTITY_DOMAIN \o <<"/", "oauth2", "/", "token">>
\* Lines 60-62: HTTP Basic credentials, the client id and the client secret.
tokenRequestHeaders ==
    [Authorization |-> [scheme |-> "Basic", user |-> CLIENT_ID, password |-> CLIENT_SECRET]]
cognitoIssuer ==
    <<"https", ":", "/", "/", "cognito-idp.us-east-1.amazonaws.com", "/">> \o USER_POOL
refreshTokenMaxAge == 30 * 24 * 60 * 60
\* Line 66: where createRemoteJWKSet fetches the key set from.
jwksURL == cognitoIssuer \o <<"/", ".well-known", "/", "jwks.json">>

\* ------------------------------------------------------------------ tokens
\* Identity tokens are compact JWTs: base64url text, one atom each.
IdGood == <<"jwt.good">>
IdAccess == <<"jwt.access">>
IdForged == <<"jwt.forged">>
IdForeign == <<"jwt.foreign">>
IdOtherAud == <<"jwt.otheraud">>
Junk == <<"junk">>
AccessTok == <<"jwt.at">>
\* Refresh tokens are opaque; R2 ends in a character the cookie codec escapes,
\* R1 is one the authorization server no longer knows.
R1 == <<"r1">>
R2 == <<"r2", "=">>
Code1 == <<"c1">>

Malformed == [sig |-> FALSE, iss |-> <<>>, aud |-> <<>>, exp |-> 0, token_use |-> "none"]

\* The protected header and payload a token decodes to; sig says whether its
\* signature verifies against the user pool's key set.
JwtPayload(tok) ==
    LET ok == [sig |-> TRUE, iss |-> cognitoIssuer, aud |-> CLIENT_ID,
               exp |-> MaxNow + 1, token_use |-> "id"]
    IN CASE tok = IdGood     -> [ok EXCEPT !.exp = 1]
         [] tok = IdAccess   -> [ok EXCEPT !.token_use = "access"]
         [] tok = AccessTok  -> [ok EXCEPT !.token_use = "access"]
         [] tok = IdForged   -> [ok EXCEPT !.sig = FALSE]
         [] tok = IdForeign  -> [ok EXCEPT !.iss = <<"https", ":", "/", "/", "evil.example">>]
         [] tok = IdOtherAud -> [ok EXCEPT !.aud = <<"xyz">>]
         [] OTHER            -> Malformed

IsJwt(tok) == JwtPayload(tok) # Malformed

\* jose's jwtVerify once the key set is at hand: signature, then the issuer,
\* audience and expiry claims (a token whose exp equals the clock is expired).
jwtVerify(tok, options, clock) ==
    LET p == JwtPayload(tok)
    IN /\ p.sig
       /\ p.iss = options.issuer
       /\ p.aud = options.audience
       /\ p.exp > clock

\* Variant: the token_use claim is not looked at.
checkToken_AnyUse(id_token, clock) ==
    jwtVerify(id_token, [issuer |-> cognitoIssuer, audience |-> CLIENT_ID], clock)

\* checkToken's outcome with the key set at hand: TRUE returns, FALSE throws.
checkToken(id_token, clock) ==
    /\ jwtVerify(id_token, [issuer |-> cognitoIssuer, audience |-> CLIENT_ID], clock)
    /\ JwtPayload(id_token).token_use = "id"

\* ------------------------------------------------------------ cookie codec
CookieNames == {"id_token", "access_token", "refresh_token"}

NoCookies == [n \in CookieNames |-> Undefined]

\* cookie.parse on one Cookie header: the first pair of a name is kept.
RECURSIVE CookieParseFrom(_, _)
CookieParseFrom(h, obj) ==
    IF h = <<>> THEN obj
    ELSE LET p == Head(h)
         IN CookieParseFrom(Tail(h),
                IF obj[p.name] = Undefined
                THEN [obj EXCEPT ![p.name] = TryDecode(p.val)]
                ELSE obj)

\* Variant: within one header the last pair of a name is kept.
CookieParse_LastWins(h) ==
    [n \in CookieNames |->
        LET at == {k \in 1..Len(h) : h[k].name = n}
        IN IF at = {} THEN Undefined
           ELSE TryDecode(h[CHOOSE k \in at : \A m \in at : m <= k].val)]

CookieParse(h) == CookieParseFrom(h, NoCookies)

\* Object.assign({}, ...objs): a later object's own keys overwrite.
RECURSIVE ObjectAssign(_, _)
ObjectAssign(target, objs) ==
    IF objs = <<>> THEN target
    ELSE LET src == Head(objs)
         IN ObjectAssign([n \in CookieNames |->
                             IF src[n] # Undefined THEN src[n] ELSE target[n]],
                         Tail(objs))

\* Variant: a request without an id_token cookie is judged by its access_token.
ParseCookies_AccessAsId(headers) ==
    LET c == ObjectAssign(NoCookies, [i \in 1..Len(headers) |-> CookieParse(headers[i])])
    IN IF c.id_token = Undefined THEN [c EXCEPT !.id_token = c.access_token] ELSE c

\* Lines 71-72: every Cookie header parsed, the results merged in order.
ParseCookies(headers) ==
    ObjectAssign(NoCookies, [i \in 1..Len(headers) |-> CookieParse(headers[i])])

\* URLSearchParams.get: the first value of the name, undefined (null) if none.
RECURSIVE SearchParamsGet(_, _)
SearchParamsGet(params, name) ==
    IF params = <<>> THEN Undefined
    ELSE IF Head(params).key = name THEN Head(params).val
    ELSE SearchParamsGet(Tail(params), name)

\* cookie.serialize(name, val, opt): name=value, then Max-Age, then Secure.
CookieSerialize(name, val, opt) ==
    [name  |-> name,
     value |-> EncodeURIComponent(val),
     attrs |-> (IF "maxAge" \in DOMAIN opt
                THEN <<[attr |-> "Max-Age", n |-> opt.maxAge]>> ELSE <<>>)
               \o (IF opt.secure THEN <<[attr |-> "Secure", n |-> 0]>> ELSE <<>>)]

\* ---------------------------------------------------------------- requests
Login == <<"/login">>
Uris == {Login, <<"/">>, <<"/login/">>}

Param(k, v) == [key |-> k, val |-> v]
\* Parsed query strings: none, a code, an empty code ahead of a real one.
QueryStrings ==
    { <<>>,
      <<Param("code", Code1)>>,
      <<Param("state", <<"s">>), Param("code", <<>>), Param("code", Code1)>> }

Pair(n, v) == [name |-> n, val |-> v]
\* Cookie header values a browser (or anyone else) may send.
CookieHeaders ==
    { <<Pair("id_token", IdGood), Pair("access_token", AccessTok)>>,
      <<Pair("id_token", IdGood), Pair("refresh_token", <<"r2", "%3D">>)>>,
      <<Pair("id_token", IdAccess), Pair("refresh_token", R1)>>,
      <<Pair("id_token", <<>>), Pair("refresh_token", <<"r2", "%3D">>)>>,
      <<Pair("id_token", IdForeign), Pair("id_token", IdGood), Pair("refresh_token", <<>>)>>,
      <<Pair("id_token", IdOtherAud)>>,
      <<Pair("id_token", IdForged), Pair("access_token", AccessTok),
        Pair("refresh_token", <<"r2", "%3D">>)>>,
      <<Pair("id_token", Junk)>>,
      <<Pair("refresh_token", R1)>> }

RECURSIVE SeqsUpTo(_, _)
SeqsUpTo(S, n) ==
    IF n = 0 THEN {<<>>}
    ELSE LET shorter == SeqsUpTo(S, n - 1)
         IN shorter \cup {Append(q, x) : q \in shorter, x \in S}

\* event.Records[0].cf.request
Requests ==
    [uri : Uris, params : QueryStrings, cookie : SeqsUpTo(CookieHeaders, MaxHeaders)]

\* ---------------------------------------------------------------- responses
NoResponse == [kind |-> "none", status |-> "", location |-> <<>>, setCookie |-> <<>>]
\* return request: CloudFront forwards the request to the origin.
PassThrough == [kind |-> "request", status |-> "", location |-> <<>>, setCookie |-> <<>>]
Redirect(status, location, cookies) ==
    [kind |-> "response", status |-> status, location |-> location, setCookie |-> cookies]

\* Variant: the redirect URI is put into the query string as it is.
IdpLoginURL_RawRedirect ==
    <<"https", ":", "/", "/">> \o IDENTITY_DOMAIN \o <<"/", "login", "?">>
    \o <<"response_type", "=">> \o FormEncode(<<"code">>)
    \o <<"&", "client_id", "=">> \o FormEncode(CLIENT_ID)
    \o <<"&", "redirect_uri", "=">> \o TOKEN_REDIRECT

\* Lines 144-148: the identity provider's hosted login page.
IdpLoginURL ==
    <<"https", ":", "/", "/">> \o IDENTITY_DOMAIN \o <<"/", "login", "?">>
    \o <<"response_type", "=">> \o FormEncode(<<"code">>)
    \o <<"&", "client_id", "=">> \o FormEncode(CLIENT_ID)
    \o <<"&", "redirect_uri", "=">> \o FormEncode(TOKEN_REDIRECT)

RedirectToIdp == Redirect("303", IdpLoginURL, <<>>)

\* --------------------------------------------------------- token exchanges
Threw == [threw |-> TRUE, value |-> <<>>]
Returned(v) == [threw |-> FALSE, value |-> v]

\* What the token endpoint can answer with.
Unparseable == [json |-> FALSE, id_token |-> Undefined, access_token |-> Undefined,
                refresh_token |-> Undefined]
Body(id, at, rt) == [json |-> TRUE, id_token |-> id, access_token |-> at, refresh_token |-> rt]
ErrorBody == Body(Undefined, Undefined, Undefined)
IssuedIds == {IdGood, IdForged, Undefined}

\* Variant: every cookie is given the refresh token's lifetime.
getNewCredentials_AllMaxAge(r) ==
    IF ~r.ok \/ ~r.body.json THEN Threw
    ELSE Returned(<<
        CookieSerialize("id_token", r.body.id_token,
                        [secure |-> TRUE, maxAge |-> refreshTokenMaxAge]),
        CookieSerialize("access_token", r.body.access_token,
                        [secure |-> TRUE, maxAge |-> refreshTokenMaxAge]),
        CookieSerialize("refresh_token", r.body.refresh_token,
                        [secure |-> TRUE, maxAge |-> refreshTokenMaxAge]) >>)

\* Lines 177-197 of getNewCredentials, from the fetch Response on.
getNewCredentials(r) ==
    IF ~r.ok \/ ~r.body.json THEN Threw
    ELSE Returned(<<
        CookieSerialize("id_token", r.body.id_token, [secure |-> TRUE]),
        CookieSerialize("access_token", r.body.access_token, [secure |-> TRUE]),
        CookieSerialize("refresh_token", r.body.refresh_token,
                        [secure |-> TRUE, maxAge |-> refreshTokenMaxAge]) >>)

\* Variant: the renewed access token is not handed back.
refreshCredentials_IdOnly(r) ==
    IF ~r.ok \/ ~r.body.json THEN Threw
    ELSE Returned(<< CookieSerialize("id_token", r.body.id_token, [secure |-> TRUE]) >>)

\* Lines 211-224 of refreshCredentials, from the fetch Response on.
refreshCredentials(r) ==
    IF ~r.ok \/ ~r.body.json THEN Threw
    ELSE Returned(<<
        CookieSerialize("id_token", r.body.id_token, [secure |-> TRUE]),
        CookieSerialize("access_token", r.body.access_token, [secure |-> TRUE]) >>)

\* Variant: a failed login is sent to the identity provider again.
LoginResult_FallsToIdp(req, result) ==
    IF result.threw THEN RedirectToIdp ELSE Redirect("307", <<"/">>, result.value)

\* Variant: no catch, the exchange error leaves the handler (CloudFront's 502).
LoginResult_Rethrow(req, result) ==
    IF result.threw
    THEN [kind |-> "error", status |-> "502", location |-> <<>>, setCookie |-> <<>>]
    ELSE Redirect("307", <<"/">>, result.value)

\* Lines 89-103: the 307 to the site root, or the catch that returns request.
LoginResult(req, result) ==
    IF result.threw THEN PassThrough ELSE Redirect("307", <<"/">>, result.value)

\* Variant: the refresh redirect goes to the site root, as the login one does.
RefreshResult_ToRoot(req, result) ==
    IF result.threw THEN RedirectToIdp ELSE Redirect("307", <<"/">>, result.value)

\* Variant: the refresh catch returns the request, as the login catch does.
RefreshResult_PassOnFailure(req, result) ==
    IF result.threw THEN PassThrough ELSE Redirect("307", req.uri, result.value)

\* Lines 123-150: the 307 back to request.uri, or the catch and then the 303.
RefreshResult(req, result) ==
    IF result.threw THEN RedirectToIdp ELSE Redirect("307", req.uri, result.value)

\* ------------------------------------------------------------------- state
VARIABLES
    request,     \* the request of the invocation in progress (or the last one)
    cookies,     \* the handler's const cookies (lines 71-72)
    loginCode,   \* the handler's const loginCode (line 73)
    pc,          \* where the handler is suspended
    resp,        \* the fetch Response whose body is awaited
    response,    \* what the handler returned
    calls,       \* upstream calls of this invocation, in order
    checked,     \* checkToken in this invocation: no, pending, passed, threw
    jwks,        \* the remote key set's cache: cold or warm
    now,         \* the clock
    srvCodes,    \* authorization codes the token endpoint would accept
    srvRefresh,  \* refresh tokens the token endpoint would accept
    jar,         \* a browser's cookies for the site, as it stores them
    nav,         \* what that browser is doing
    toolUsersCache,  \* the pre sign-up function's module variable (line 6)
    tool_users,      \* the value of the SSM parameter tool_users
    signup,          \* the pre sign-up invocation in progress (or the last one)
    other,           \* a second invocation of the handler in the same process
    twin             \* the same handler run a second time, on a copy of its world

\* The pre sign-up function: its own execution environment and its parameter.
gate == <<toolUsersCache, tool_users, signup>>

\* What lives outside the handler's execution environment.
outside == <<jar, nav, gate, env, other, twin>>

\* What a browser's steps leave alone, what a deployment's do.
beyondBrowser == <<gate, env, other, twin>>
beyondDeploy == <<jar, nav, gate, other, twin>>

\* The handler's execution environment and the services it calls.
edge == <<request, cookies, loginCode, pc, resp, response, calls, checked, jwks, now,
          srvCodes, srvRefresh>>

vars == <<request, cookies, loginCode, pc, resp, response, calls, checked, jwks, now,
          srvCodes, srvRefresh, outside>>

\* The invocation's request and the two constants computed from it.
locals == <<request, cookies, loginCode>>

NoResp == [ok |-> FALSE, body |-> Unparseable]
\* An upstream call: a POST to the token endpoint with its grant type and its
\* code or refresh token, or the GET of the key set.
Call(op, arg) ==
    [url |-> IF op = "jwks" THEN jwksURL ELSE tokenURL,
     op |-> op, arg |-> arg, result |-> "pending"]
Settle(cs, result) == [cs EXCEPT ![Len(cs)].result = result]

NoRequest == [uri |-> <<>>, params |-> <<>>, cookie |-> <<>>]

\* A browser that is not open: nothing requested, nothing received.
NoNav == [state |-> "closed", uri |-> <<>>, after |-> "none", issued |-> Undefined,
          setCookie |-> <<>>]

\* An invocation's own state: the handler's parameters, constants and place.
NoInvocation ==
    [request |-> NoRequest, cookies |-> NoCookies, loginCode |-> Undefined, pc |-> "idle",
     resp |-> NoResp, response |-> NoResponse, calls |-> <<>>, checked |-> "no"]

\* No second run: nothing to compare the handler's run with.
NoTwin ==
    [active |-> FALSE, started |-> FALSE, todo |-> NoRequest, inv |-> NoInvocation,
     world |-> [jwks |-> "cold", now |-> 0, srvCodes |-> {}, srvRefresh |-> {}]]

\* Line 6: let toolUsersCache: Set<String> | undefined.
NoCache == [filled |-> FALSE, users |-> {}]
NoSignup == [pc |-> "idle", email |-> <<>>, threw |-> FALSE, response |-> {}, configured |-> <<>>,
             ssm |-> "none"]

\* Sign-up emails, and values the StringList parameter may have (Undefined: the
\* answer carries no Value).
Alice == <<"alice@example.com">>
Bob == <<"bob@example.com">>
Emails == {Alice, Bob}
ParamValues == {Undefined, Alice, Bob, Alice \o <<",">> \o Bob}

Init ==
    /\ request = NoRequest
    /\ cookies = NoCookies
    /\ loginCode = Undefined
    /\ pc = "idle"
    /\ resp = NoResp
    /\ response = NoResponse
    /\ calls = <<>>
    /\ checked = "no"
    /\ jwks = "cold"
    /\ now = 0
    /\ srvCodes \in SUBSET {Code1}
    /\ srvRefresh \in SUBSET {R2}
    /\ jar = NoCookies
    /\ nav = NoNav
    /\ toolUsersCache = NoCache
    /\ tool_users = Alice \o <<",">> \o Bob
    /\ signup = NoSignup
    /\ env = CompleteEnv
    /\ other = NoInvocation
    /\ twin = NoTwin

\* Variant: a request without a refresh token is let through.
AttemptRefresh_Lenient(req, cs) ==
    LET c == ParseCookies(req.cookie)
    IN IF Truthy(c.refresh_token)
       THEN /\ pc' = "refresh_fetch"
            /\ calls' = Append(cs, Call("refresh_token", c.refresh_token))
            /\ response' = NoResponse
       ELSE /\ pc' = "done"
            /\ calls' = cs
            /\ response' = PassThrough

\* Lines 122-150 up to the next await: the refresh attempt, else the 303.
AttemptRefresh(req, cs) ==
    LET c == ParseCookies(req.cookie)
    IN IF Truthy(c.refresh_token)
       THEN /\ pc' = "refresh_fetch"
            /\ calls' = Append(cs, Call("refresh_token", c.refresh_token))
            /\ response' = NoResponse
       ELSE /\ pc' = "done"
            /\ calls' = cs
            /\ response' = RedirectToIdp

\* Variant: existing credentials are looked at before the login code.
Classify_CredsFirst(req) ==
    LET code == SearchParamsGet(req.params, "code")
    IN IF Truthy(ParseCookies(req.cookie).id_token) THEN "check"
       ELSE IF req.uri = Login /\ Truthy(code) THEN "code"
       ELSE IF req.uri = Login THEN "login"
       ELSE "refresh"

\* Variant: the code is tested for presence (!== null), not for truthiness.
Classify_NullCode(req) ==
    LET code == SearchParamsGet(req.params, "code")
    IN IF req.uri = Login /\ code # Undefined THEN "code"
       ELSE IF req.uri = Login THEN "login"
       ELSE IF Truthy(ParseCookies(req.cookie).id_token) THEN "check"
       ELSE "refresh"

\* Lines 69-73, 88, 104, 109: which branch the handler takes first.
Classify(req) ==
    LET code == SearchParamsGet(req.params, "code")
    IN IF req.uri = Login /\ Truthy(code) THEN "code"
       ELSE IF req.uri = Login THEN "login"
       ELSE IF Truthy(ParseCookies(req.cookie).id_token) THEN "check"
       ELSE "refresh"

\* Lines 68-122 up to the first await.
Invoke(req) ==
    /\ pc = "idle"
    /\ request' = req
    /\ cookies' = ParseCookies(req.cookie)
    /\ loginCode' = SearchParamsGet(req.params, "code")
    /\ resp' = NoResp
    /\ UNCHANGED <<jwks, now, srvCodes, srvRefresh>>
    /\ LET case == Classify(req)
       IN IF case = "code"
          THEN /\ pc' = "code_fetch"
               /\ calls' = <<Call("authorization_code", SearchParamsGet(req.params, "code"))>>
               /\ response' = NoResponse
               /\ checked' = "no"
          ELSE IF case = "login"
          THEN /\ pc' = "done"
               /\ calls' = <<>>
               /\ response' = PassThrough
               /\ checked' = "no"
          ELSE IF case = "check"
          THEN /\ pc' = "jwt_verify"
               /\ calls' = <<>>
               /\ response' = NoResponse
               /\ checked' = "pending"
          ELSE /\ checked' = "no"
               /\ AttemptRefresh(req, <<>>)

\* The token endpoint checks the Authorization header of a token request
\* against the app client's secret.
ClientAuthenticated ==
    tokenRequestHeaders.Authorization
        = [scheme |-> "Basic", user |-> CLIENT_ID, password |-> RegisteredSecret]

\* Line 166: the code-exchange POST settles: the call fails, or the token
\* endpoint answers by whether it knows the code (a code is good once).
CodeFetch ==
    /\ pc = "code_fetch"
    /\ UNCHANGED <<locals, checked, jwks, now>>
    /\ \/ /\ pc' = "done"
          /\ response' = LoginResult(request, Threw)
          /\ calls' = Settle(calls, "error")
          /\ UNCHANGED <<resp, srvCodes, srvRefresh>>
       \/ /\ loginCode \in srvCodes /\ ClientAuthenticated /\ TOKEN_REDIRECT = RegisteredCallback
          /\ \E id \in IssuedIds, parses \in BOOLEAN :
                resp' = [ok |-> TRUE,
                         body |-> IF parses THEN Body(id, AccessTok, R2) ELSE Unparseable]
          /\ srvRefresh' = srvRefresh \cup {R2}
          /\ srvCodes' = srvCodes \ {loginCode}
          /\ pc' = "code_json"
          /\ UNCHANGED <<response, calls>>
       \/ /\ loginCode \notin srvCodes \/ ~ClientAuthenticated
             \/ TOKEN_REDIRECT # RegisteredCallback
          /\ \E b \in {ErrorBody, Unparseable} : resp' = [ok |-> FALSE, body |-> b]
          /\ pc' = "code_json"
          /\ UNCHANGED <<response, calls, srvCodes, srvRefresh>>

\* Lines 177-197 and 89-103: the body is read and the handler returns.
CodeJson ==
    /\ pc = "code_json"
    /\ LET result == getNewCredentials(resp)
       IN /\ response' = LoginResult(request, result)
          /\ calls' = Settle(calls, IF result.threw THEN "error" ELSE "ok")
    /\ pc' = "done"
    /\ UNCHANGED <<locals, resp, checked, jwks, now, srvCodes, srvRefresh>>

\* Lines 112-119 and 155-162 once the key set is at hand: checkToken returns
\* and the request passes, or it throws and the handler goes on to line 122.
VerifyWithKeys(req, cs) ==
    IF checkToken(ParseCookies(req.cookie).id_token, now)
    THEN /\ checked' = "passed"
         /\ pc' = "done"
         /\ response' = PassThrough
         /\ calls' = cs
    ELSE /\ checked' = "threw"
         /\ AttemptRefresh(req, cs)

\* Lines 112 and 155: jwtVerify decodes the token and asks the key set for the
\* key, which fetches jwks.json when the cache is cold.
JwtVerify ==
    /\ pc = "jwt_verify"
    /\ UNCHANGED <<locals, resp, jwks, now, srvCodes, srvRefresh>>
    /\ IF ~IsJwt(cookies.id_token)
       THEN /\ checked' = "threw"
            /\ AttemptRefresh(request, calls)
       ELSE IF jwks = "cold"
       THEN /\ pc' = "jwks_fetch"
            /\ calls' = Append(calls, Call("jwks", <<>>))
            /\ UNCHANGED <<response, checked>>
       ELSE VerifyWithKeys(request, calls)

\* Line 66: the GET of jwks.json settles: the keys are cached and used, or the
\* failure rejects jwtVerify.
JwksFetch ==
    /\ pc = "jwks_fetch"
    /\ UNCHANGED <<locals, resp, now, srvCodes, srvRefresh>>
    /\ \/ /\ jwks' = "warm"
          /\ VerifyWithKeys(request, Settle(calls, "ok"))
       \/ /\ checked' = "threw"
          /\ AttemptRefresh(request, Settle(calls, "error"))
          /\ UNCHANGED jwks

\* Variant: a refresh call that fails is issued once more.
RefreshFetch_Retry ==
    /\ pc = "refresh_fetch"
    /\ UNCHANGED <<locals, checked, jwks, now, srvCodes, srvRefresh>>
    /\ \/ /\ pc' = "refresh_fetch"
          /\ calls' = Append(Settle(calls, "error"), Call("refresh_token", cookies.refresh_token))
          /\ UNCHANGED <<resp, response>>
       \/ /\ \E b \in {ErrorBody, Unparseable} : resp' = [ok |-> FALSE, body |-> b]
          /\ pc' = "refresh_json"
          /\ UNCHANGED <<response, calls>>

\* Line 201: the refresh POST settles.
RefreshFetch ==
    /\ pc = "refresh_fetch"
    /\ UNCHANGED <<locals, checked, jwks, now, srvCodes, srvRefresh>>
    /\ \/ /\ pc' = "done"
          /\ response' = RefreshResult(request, Threw)
          /\ calls' = Settle(calls, "error")
          /\ UNCHANGED resp
       \/ /\ cookies.refresh_token \in srvRefresh /\ ClientAuthenticated
          /\ \E id \in IssuedIds, parses \in BOOLEAN :
                resp' = [ok |-> TRUE,
                         body |-> IF parses THEN Body(id, AccessTok, Undefined)
                                  ELSE Unparseable]
          /\ pc' = "refresh_json"
          /\ UNCHANGED <<response, calls>>
       \/ /\ cookies.refresh_token \notin srvRefresh \/ ~ClientAuthenticated
          /\ \E b \in {ErrorBody, Unparseable} : resp' = [ok |-> FALSE, body |-> b]
          /\ pc' = "refresh_json"
          /\ UNCHANGED <<response, calls>>

\* Lines 211-224 and 123-150: the body is read and the handler returns.
RefreshJson ==
    /\ pc = "refresh_json"
    /\ LET result == refreshCredentials(resp)
       IN /\ response' = RefreshResult(request, result)
          /\ calls' = Settle(calls, IF result.threw THEN "error" ELSE "ok")
    /\ pc' = "done"
    /\ UNCHANGED <<locals, resp, checked, jwks, now, srvCodes, srvRefresh>>

Suspended == {"code_fetch", "code_json", "jwt_verify", "jwks_fetch", "refresh_fetch", "refresh_json"}

\* The host ends the invocation at an await (its deadline passed): nothing is
\* returned and the invocation's locals are gone.
Abort ==
    /\ pc \in Suspended
    /\ pc' = "aborted"
    /\ response' = NoResponse
    /\ resp' = NoResp
    /\ calls' = <<>>
    /\ checked' = "no"
    /\ UNCHANGED <<locals, jwks, now, srvCodes, srvRefresh>>

\* The invocation is over: the instance waits for its next event, and nothing
\* of the invocation is kept but the key-set cache.
Return ==
    /\ pc \in {"done", "aborted"}
    /\ pc' = "idle"
    /\ request' = NoRequest
    /\ cookies' = NoCookies
    /\ loginCode' = Undefined
    /\ resp' = NoResp
    /\ response' = NoResponse
    /\ calls' = <<>>
    /\ checked' = "no"
    /\ UNCHANGED <<jwks, now, srvCodes, srvRefresh>>

\* ------------------------------------------------------------- environment
Tick ==
    /\ now < MaxNow
    /\ now' = now + 1
    /\ UNCHANGED <<locals, pc, resp, response, calls, checked, jwks, srvCodes, srvRefresh>>

\* A user signs in at the identity provider, which hands out a code.
IdpLogin ==
    /\ Code1 \notin srvCodes
    /\ srvCodes' = srvCodes \cup {Code1}
    /\ UNCHANGED <<locals, pc, resp, response, calls, checked, jwks, now, srvRefresh>>

\* The authorization server revokes or expires a refresh token.
Revoke ==
    /\ R2 \in srvRefresh
    /\ srvRefresh' = srvRefresh \ {R2}
    /\ UNCHANGED <<locals, pc, resp, response, calls, checked, jwks, now, srvCodes>>

\* The key-set cache goes stale (or the process is recycled).
JwksExpire ==
    /\ jwks = "warm"
    /\ jwks' = "cold"
    /\ UNCHANGED <<locals, pc, resp, response, calls, checked, now, srvCodes, srvRefresh>>

\* The handler's steps and its environment's, any client sending the requests.
Next ==
    \/ (\E req \in Requests : Invoke(req)) /\ UNCHANGED outside
    \/ CodeFetch /\ UNCHANGED outside
    \/ CodeJson /\ UNCHANGED outside
    \/ JwtVerify /\ UNCHANGED outside
    \/ JwksFetch /\ UNCHANGED outside
    \/ RefreshFetch /\ UNCHANGED outside
    \/ RefreshJson /\ UNCHANGED outside
    \/ Abort /\ UNCHANGED outside
    \/ Return /\ UNCHANGED outside
    \/ Tick /\ UNCHANGED outside
    \/ IdpLogin /\ UNCHANGED outside
    \/ Revoke /\ UNCHANGED outside
    \/ JwksExpire /\ UNCHANGED outside

Spec == Init /\ [][Next]_vars

\* ------------------------------------------------------- repeated cookies
\* Requests to one protected page that differ in their Cookie headers only.
MergeRequests ==
    [uri : {<<"/">>}, params : {<<>>}, cookie : SeqsUpTo(CookieHeaders, MaxMerge)]

MergeNext ==
    \/ (\E req \in MergeRequests : Invoke(req)) /\ UNCHANGED outside
    \/ JwtVerify /\ UNCHANGED outside
    \/ JwksFetch /\ UNCHANGED outside
    \/ RefreshFetch /\ UNCHANGED outside
    \/ RefreshJson /\ UNCHANGED outside
    \/ Return /\ UNCHANGED outside

MergeSpec == Init /\ [][MergeNext]_vars

\* ------------------------------------------------------------- concurrency
\* Two invocations in one process. The event loop runs one of them at a time,
\* up to its next await (lines 90, 112, 124 and the awaits below them); what
\* an invocation holds in its parameters and constants (lines 68-73) is its
\* own, the key set (line 66) belongs to the module.
Current ==
    [request |-> request, cookies |-> cookies, loginCode |-> loginCode, pc |-> pc,
     resp |-> resp, response |-> response, calls |-> calls, checked |-> checked]

\* Variant: cookies is a variable of the module, shared by the invocations.
Switch_SharedCookies ==
    /\ other # Current
    /\ request' = other.request
    /\ cookies' = cookies
    /\ loginCode' = other.loginCode
    /\ pc' = other.pc
    /\ resp' = other.resp
    /\ response' = other.response
    /\ calls' = other.calls
    /\ checked' = other.checked
    /\ other' = Current
    /\ UNCHANGED <<jwks, now, srvCodes, srvRefresh>>

\* The event loop turns to the other invocation.
Switch ==
    /\ other # Current
    /\ request' = other.request
    /\ cookies' = other.cookies
    /\ loginCode' = other.loginCode
    /\ pc' = other.pc
    /\ resp' = other.resp
    /\ response' = other.response
    /\ calls' = other.calls
    /\ checked' = other.checked
    /\ other' = Current
    /\ UNCHANGED <<jwks, now, srvCodes, srvRefresh>>

\* A login, a page with a valid token, a page with only a refresh token, a
\* page with nothing.
ConcurrentRequests ==
    [uri : {<<"/">>}, params : {<<>>},
     cookie : {<<>>,
               << <<Pair("id_token", IdGood), Pair("refresh_token", <<"r2", "%3D">>)>> >>,
               << <<Pair("id_token", <<>>), Pair("refresh_token", <<"r2", "%3D">>)>> >>}]
    \cup [uri : {Login}, params : {<<Param("code", Code1)>>}, cookie : {<<>>}]

beyondProcess == <<jar, nav, gate, env, twin>>

ConcurrentNext ==
    \/ Switch /\ UNCHANGED beyondProcess
    \/ (\E req \in ConcurrentRequests : Invoke(req)) /\ UNCHANGED outside
    \/ CodeFetch /\ UNCHANGED outside
    \/ CodeJson /\ UNCHANGED outside
    \/ JwtVerify /\ UNCHANGED outside
    \/ JwksFetch /\ UNCHANGED outside
    \/ RefreshFetch /\ UNCHANGED outside
    \/ RefreshJson /\ UNCHANGED outside
    \/ Return /\ UNCHANGED outside
    \/ Tick /\ UNCHANGED outside
    \/ JwksExpire /\ UNCHANGED outside

ConcurrentSpec == Init /\ [][ConcurrentNext]_vars

\* ---------------------------------------------------------------- two runs
\* The handler run twice from the same state of everything it depends on (the
\* key-set cache, the clock, the authorization server), once on a request and
\* once on the same request with another access_token cookie, each run in its
\* own copy of that state.
World == [jwks |-> jwks, now |-> now, srvCodes |-> srvCodes, srvRefresh |-> srvRefresh]

\* Cookie headers without an access_token cookie, and the same header with
\* one put in front.
BareHeaders ==
    { <<>>,
      <<Pair("id_token", IdGood)>>,
      <<Pair("refresh_token", <<"r2", "%3D">>)>>,
      <<Pair("id_token", IdForged), Pair("refresh_token", <<"r2", "%3D">>)>> }
AccessValues == {AccessTok, IdGood}
WithAccess(h, v) == <<Pair("access_token", v)>> \o h
HeaderField(h) == IF h = <<>> THEN <<>> ELSE <<h>>

\* Pairs of requests that are the same but for the access_token cookie: one
\* with and one without, or both with and the values differing.
TwinRequests ==
    { <<[r EXCEPT !.cookie = HeaderField(hv[1])], [r EXCEPT !.cookie = HeaderField(hv[2])]>> :
        r \in [uri : {<<"/">>}, params : {<<>>}, cookie : {<<>>}]
               \cup [uri : {Login}, params : {<<Param("code", Code1)>>}, cookie : {<<>>}],
        hv \in UNION { { <<WithAccess(h, AccessTok), h>>,
                         <<WithAccess(h, IdGood), h>>,
                         <<WithAccess(h, AccessTok), WithAccess(h, IdGood)>> } : h \in BareHeaders } }

\* The first run starts; the second is to run on a copy of the present state.
TwinInvoke ==
    /\ ~twin.active
    /\ \E rr \in TwinRequests :
          /\ Invoke(rr[1])
          /\ twin' = [active |-> TRUE, started |-> FALSE, todo |-> rr[2],
                      inv |-> NoInvocation, world |-> World]

\* The other run, in its own copy of the world, is turned to.
TwinSwitch ==
    /\ twin.active
    /\ request' = twin.inv.request
    /\ cookies' = twin.inv.cookies
    /\ loginCode' = twin.inv.loginCode
    /\ pc' = twin.inv.pc
    /\ resp' = twin.inv.resp
    /\ response' = twin.inv.response
    /\ calls' = twin.inv.calls
    /\ checked' = twin.inv.checked
    /\ jwks' = twin.world.jwks
    /\ now' = twin.world.now
    /\ srvCodes' = twin.world.srvCodes
    /\ srvRefresh' = twin.world.srvRefresh
    /\ twin' = [twin EXCEPT !.inv = Current, !.world = World]

\* The second run starts, on the other request of the pair.
TwinInvokeOther ==
    /\ twin.active
    /\ ~twin.started
    /\ twin.inv.pc # "idle"
    /\ Invoke(twin.todo)
    /\ twin' = [twin EXCEPT !.started = TRUE]

\* Both runs are over.
TwinReturn ==
    /\ twin.started
    /\ twin.inv.pc = "done"
    /\ Return
    /\ twin' = NoTwin

beyondTwin == <<jar, nav, gate, env, other>>

TwinNext ==
    \/ TwinInvoke /\ UNCHANGED beyondTwin
    \/ TwinSwitch /\ UNCHANGED beyondTwin
    \/ TwinInvokeOther /\ UNCHANGED beyondTwin
    \/ TwinReturn /\ UNCHANGED beyondTwin
    \/ CodeFetch /\ UNCHANGED outside
    \/ CodeJson /\ UNCHANGED outside
    \/ JwtVerify /\ UNCHANGED outside
    \/ JwksFetch /\ UNCHANGED outside
    \/ RefreshFetch /\ UNCHANGED outside
    \/ RefreshJson /\ UNCHANGED outside
    \/ ~twin.active /\ Tick /\ UNCHANGED outside
    \/ ~twin.active /\ IdpLogin /\ UNCHANGED outside
    \/ ~twin.active /\ Revoke /\ UNCHANGED outside
    \/ ~twin.active /\ JwksExpire /\ UNCHANGED outside

TwinSpec == Init /\ [][TwinNext]_vars

\* -------------------------------------------------------------- deployment
\* part_000 lines 71-101: the custom resource writes env.json into the bundle
\* from its own environment and the app client's description; JSON.stringify
\* leaves out a field that is undefined. The new bundle replaces the running
\* one: the module is loaded anew, with the new env.json and no cached keys.
InjectPayload(tokenRedirect, clientSecret) ==
    /\ pc = "idle"
    /\ env' = [USER_POOL |-> USER_POOL, IDENTITY_DOMAIN |-> IDENTITY_DOMAIN,
               TOKEN_REDIRECT |-> tokenRedirect, CLIENT_ID |-> CLIENT_ID,
               CLIENT_SECRET |-> clientSecret]
    /\ env' # env
    /\ jwks' = "cold"
    /\ UNCHANGED <<locals, pc, resp, response, calls, checked, now, srvCodes, srvRefresh>>

\* Requests without an identity token: with and without a code, a refresh
\* token, on each path.
DeployRequests ==
    [uri : Uris,
     params : {<<>>, <<Param("code", Code1)>>},
     cookie : {<<>>, << <<Pair("refresh_token", <<"r2", "%3D">>)>> >>}]

DeployNext ==
    \/ /\ \E tokenRedirect \in {RegisteredCallback, Undefined},
             clientSecret \in {RegisteredSecret, Undefined} :
                InjectPayload(tokenRedirect, clientSecret)
       /\ UNCHANGED beyondDeploy
    \/ (\E req \in DeployRequests : Invoke(req)) /\ UNCHANGED outside
    \/ CodeFetch /\ UNCHANGED outside
    \/ CodeJson /\ UNCHANGED outside
    \/ RefreshFetch /\ UNCHANGED outside
    \/ RefreshJson /\ UNCHANGED outside
    \/ Return /\ UNCHANGED outside
    \/ IdpLogin /\ UNCHANGED outside

DeploySpec == Init /\ [][DeployNext]_vars

\* ----------------------------------------------------------------- browser
\* A browser on the site: it sends its cookies with every request (lines 71-72
\* read them), stores the Set-Cookie headers of a response (lines 94-99 and
\* 128-133 write them) and follows a 307 to its Location (lines 92 and 126).
CookieOrder == <<"id_token", "access_token", "refresh_token">>

\* The request's Cookie headers: one header with every stored cookie, name=value
\* as stored, or no header at all.
JarCookie(j) ==
    LET stored == SelectSeq([i \in 1..Len(CookieOrder) |-> Pair(CookieOrder[i], j[CookieOrder[i]])],
                            LAMBDA p : p.val # Undefined)
    IN IF stored = <<>> THEN <<>> ELSE <<stored>>

\* Set-Cookie headers applied in order: the value is stored as it was sent.
RECURSIVE ApplySetCookie(_, _)
ApplySetCookie(j, cs) ==
    IF cs = <<>> THEN j
    ELSE ApplySetCookie([j EXCEPT ![Head(cs).name] = Head(cs).value], Tail(cs))

\* Cookies a browser may hold from earlier visits.
StoredJars ==
    { NoCookies,
      [NoCookies EXCEPT !.refresh_token = <<"r2", "%3D">>],
      [NoCookies EXCEPT !.id_token = IdAccess, !.refresh_token = R1],
      [id_token |-> IdGood, access_token |-> AccessTok, refresh_token |-> <<"r2", "%3D">>] }

BrowserOpen ==
    /\ nav.state = "closed"
    /\ \E j \in StoredJars : jar' = j
    /\ nav' = [nav EXCEPT !.state = "idle"]
    /\ UNCHANGED <<edge, beyondBrowser>>

\* The user opens a page of the site (or the identity provider sends the
\* browser back to /login with a code).
BrowserNavigate ==
    /\ nav.state = "idle"
    /\ \E uri \in Uris, params \in QueryStrings :
          /\ Invoke([uri |-> uri, params |-> params, cookie |-> JarCookie(jar)])
          /\ nav' = [NoNav EXCEPT !.state = "waiting", !.uri = uri]
    /\ UNCHANGED <<jar, beyondBrowser>>

\* The browser repeats the request at the 307's Location, with its cookies.
BrowserFollow ==
    /\ nav.state = "redirected"
    /\ Invoke([uri |-> nav.uri, params |-> <<>>, cookie |-> JarCookie(jar)])
    /\ nav' = [nav EXCEPT !.state = "waiting"]
    /\ UNCHANGED <<jar, beyondBrowser>>

\* The handler's answer arrives: Set-Cookie is applied, a 307 is followed next,
\* anything else is where the browser stays (the origin's page, the identity
\* provider's login page, CloudFront's error page).
BrowserReceive ==
    /\ nav.state = "waiting"
    /\ Return
    /\ jar' = ApplySetCookie(jar, response.setCookie)
    /\ nav' = IF response.kind = "response" /\ response.status = "307"
              THEN [state |-> "redirected",
                    uri |-> response.location,
                    after |-> IF calls[Len(calls)].op = "authorization_code" THEN "login"
                              ELSE "refresh",
                    issued |-> resp.body.id_token,
                    setCookie |-> response.setCookie]
              ELSE [NoNav EXCEPT !.state = "idle"]
    /\ UNCHANGED beyondBrowser

BrowserNext ==
    \/ BrowserOpen
    \/ BrowserNavigate
    \/ BrowserFollow
    \/ BrowserReceive
    \/ CodeFetch /\ UNCHANGED outside
    \/ CodeJson /\ UNCHANGED outside
    \/ JwtVerify /\ UNCHANGED outside
    \/ JwksFetch /\ UNCHANGED outside
    \/ RefreshFetch /\ UNCHANGED outside
    \/ RefreshJson /\ UNCHANGED outside
    \/ Abort /\ UNCHANGED outside
    \/ Tick /\ UNCHANGED outside
    \/ IdpLogin /\ UNCHANGED outside
    \/ Revoke /\ UNCHANGED outside
    \/ JwksExpire /\ UNCHANGED outside

\* The browser and the handler keep going: a request sent is answered, a
\* redirect received is followed.
BrowserSpec == Init /\ [][BrowserNext]_vars /\ WF_vars(BrowserNext)

\* ------------------------------------------------------------ pre sign-up
\* String.prototype.split(','): the pieces between the commas.
RECURSIVE Split(_, _)
Split(v, piece) ==
    IF v = <<>> THEN <<piece>>
    ELSE IF Head(v) = "," THEN <<piece>> \o Split(Tail(v), <<>>)
    ELSE Split(Tail(v), Append(piece, Head(v)))

\* Line 14: new Set(resp.Parameter?.Value?.split(',')); new Set(undefined) is
\* the empty set.
NewSet(value) ==
    IF value = Undefined THEN {}
    ELSE LET pieces == Split(value, <<>>) IN {pieces[i] : i \in 1..Len(pieces)}

Confirmed == {"autoConfirmUser", "autoVerifyEmail", "autoVerifyPhone"}

\* Lines 22-35: the throw for an email that is not in the set, else the event
\* with the three response flags set.
Gate(email, toolUsers, fetched) ==
    [pc |-> "done", email |-> email,
     threw |-> email \notin toolUsers,
     response |-> IF email \in toolUsers THEN Confirmed ELSE {},
     configured |-> tool_users,
     ssm |-> fetched]

\* Lines 19-20 and 7-10: a sign-up event arrives; with the cache filled
\* fetchToolUsers returns it at once.
PreSignUp(email) ==
    /\ signup.pc = "idle"
    /\ signup' = IF toolUsersCache.filled
                 THEN Gate(email, toolUsersCache.users, "none")
                 ELSE [NoSignup EXCEPT !.pc = "ssm", !.email = email]
    /\ UNCHANGED <<toolUsersCache, tool_users>>

\* Lines 12-16: ssm.getParameter settles: it rejects and so does the handler,
\* or the cache is filled from the answer and the gate decides.
SsmGetParameter ==
    /\ signup.pc = "ssm"
    /\ \/ /\ signup' = [signup EXCEPT !.pc = "done", !.threw = TRUE, !.ssm = "error",
                                       !.configured = tool_users]
          /\ UNCHANGED toolUsersCache
       \/ /\ toolUsersCache' = [filled |-> TRUE, users |-> NewSet(tool_users)]
          /\ signup' = Gate(signup.email, NewSet(tool_users), "ok")
    /\ UNCHANGED tool_users

SignupReturn ==
    /\ signup.pc = "done"
    /\ signup' = NoSignup
    /\ UNCHANGED <<toolUsersCache, tool_users>>

\* An administrator edits the allow-list.
PutParameter ==
    /\ \E v \in ParamValues \ {tool_users} : tool_users' = v
    /\ UNCHANGED <<toolUsersCache, signup>>

\* The function's execution environment is replaced: the module is loaded anew.
Recycle ==
    /\ signup.pc = "idle"
    /\ toolUsersCache.filled
    /\ toolUsersCache' = NoCache
    /\ UNCHANGED <<tool_users, signup>>

beyondGate == <<edge, jar, nav, env, other, twin>>

SignupNext ==
    \/ (\E email \in Emails : PreSignUp(email)) /\ UNCHANGED beyondGate
    \/ SsmGetParameter /\ UNCHANGED beyondGate
    \/ SignupReturn /\ UNCHANGED beyondGate
    \/ PutParameter /\ UNCHANGED beyondGate
    \/ Recycle /\ UNCHANGED beyondGate

SignupSpec == Init /\ [][SignupNext]_vars

\* ------------------------------------------------------------------ claims
Done == pc = "done"
IsPassThrough == response.kind = "request" /\ response.status = "" /\ response.setCookie = <<>>
CookieNamesOf(cs) == [i \in 1..Len(cs) |-> cs[i].name]
HasAttr(c, a) == \E i \in 1..Len(c.attrs) : c.attrs[i].attr = a
CallSettled(op, result) == \E i \in 1..Len(calls) : calls[i].op = op /\ calls[i].result = result
CallMade(op) == \E i \in 1..Len(calls) : calls[i].op = op

\* A token as the claims describe a valid one: correctly signed, issued by the
\* configured issuer for the configured audience, unexpired, of use "id".
ValidIdToken(tok) ==
    LET p == JwtPayload(tok)
    IN /\ Truthy(tok)
       /\ p.sig
       /\ p.iss = <<"https", ":", "/", "/", "cognito-idp.us-east-1.amazonaws.com", "/">> \o USER_POOL
       /\ p.aud = CLIENT_ID
       /\ p.exp > now
       /\ p.token_use = "id"

\* The location of the identity provider's login page, written out.
ExpectedIdpLocation ==
    <<"https", ":", "/", "/">> \o IDENTITY_DOMAIN
    \o <<"/", "login", "?", "response_type", "=", "code", "&", "client_id", "=">> \o CLIENT_ID
    \o <<"&", "redirect_uri", "=", "https", "%3A", "%2F", "%2F", "site.example", "%2F", "login">>

\* C1: every request whose id_token cookie is valid (signature, issuer,
\* audience, expiry and use all good, the key set being at hand) is passed
\* through, whatever its path and query string: no redirect, no Set-Cookie.
C1_ValidTokenPassesThrough ==
    (Done /\ ValidIdToken(cookies.id_token) /\ ~CallSettled("jwks", "error"))
        => IsPassThrough

\* C2 as claimed: whenever the id_token cookie is missing or invalid and the
\* refresh_token cookie is one the token endpoint accepts (and no upstream call
\* failed), the response is the 307 to request.uri with exactly the id_token
\* and access_token cookies.
C2_RefreshOnAnyPath ==
    (/\ Done
     /\ ~ValidIdToken(cookies.id_token)
     /\ Truthy(cookies.refresh_token) /\ cookies.refresh_token \in srvRefresh
     /\ \A i \in 1..Len(calls) : calls[i].result # "error")
        => /\ response.status = "307"
           /\ response.location = request.uri
           /\ CookieNamesOf(response.setCookie) = <<"id_token", "access_token">>

\* C2 amended: on a path other than /login, whenever the id_token cookie is
\* missing, empty or rejected by checkToken and the refresh exchange succeeds,
\* the response is the 307 to request.uri with exactly two Set-Cookie entries,
\* id_token and access_token, and no refresh_token cookie.
C2_RefreshOffLogin ==
    (/\ Done
     /\ request.uri # Login
     /\ checked # "passed"
     /\ Truthy(cookies.refresh_token)
     /\ CallSettled("refresh_token", "ok"))
        => /\ response.kind = "response"
           /\ response.status = "307"
           /\ response.location = request.uri
           /\ CookieNamesOf(response.setCookie) = <<"id_token", "access_token">>
           /\ \A i \in 1..Len(response.setCookie) :
                 response.setCookie[i].name # "refresh_token"

C2_Witness ==
    /\ Done
    /\ request.uri = <<"/login/">>
    /\ checked = "threw"
    /\ cookies.refresh_token = R2
    /\ CallSettled("refresh_token", "ok")
    /\ response.status = "307"

\* C3: a request to /login whose code the token endpoint accepts gets the 307
\* to "/" with exactly the id_token, access_token and refresh_token cookies, all
\* Secure, the refresh_token cookie alone carrying Max-Age, of 2592000 seconds.
C3_LoginIssuesThreeCookies ==
    (/\ Done
     /\ request.uri = Login
     /\ Truthy(loginCode)
     /\ CallSettled("authorization_code", "ok"))
        => /\ response.kind = "response"
           /\ response.status = "307"
           /\ response.location = <<"/">>
           /\ CookieNamesOf(response.setCookie) = <<"id_token", "access_token", "refresh_token">>
           /\ \A i \in 1..Len(response.setCookie) :
                 LET c == response.setCookie[i]
                 IN /\ HasAttr(c, "Secure")
                    /\ HasAttr(c, "Max-Age") <=> c.name = "refresh_token"
                    /\ \A j \in 1..Len(c.attrs) :
                          c.attrs[j].attr = "Max-Age" => c.attrs[j].n = 2592000

C3_Witness ==
    /\ Done
    /\ request.uri = Login
    /\ loginCode = Code1
    /\ CallSettled("authorization_code", "ok")
    /\ Len(response.setCookie) = 3
    /\ response.setCookie[3].value = <<"r2", "%3D">>

\* C4: a request with no cookies and no login code on a path other than /login
\* gets the 303 to the identity provider's login page, with response_type=code,
\* the client id and the URL-encoded redirect URI, no Set-Cookie, and neither
\* the token endpoint nor the validator was called.
C4_NoCredentialsRedirectsToIdp ==
    (/\ Done
     /\ request.uri # Login
     /\ request.cookie = <<>>
     /\ ~Truthy(loginCode))
        => /\ response.kind = "response"
           /\ response.status = "303"
           /\ response.location = ExpectedIdpLocation
           /\ DecodeAtoms(SubSeq(response.location,
                                   Len(response.location) - 6,
                                   Len(response.location))) = TOKEN_REDIRECT
           /\ response.setCookie = <<>>
           /\ calls = <<>>
           /\ checked = "no"

C4_Witness ==
    /\ Done
    /\ request.uri = <<"/">>
    /\ request.cookie = <<>>
    /\ request.params = <<>>
    /\ response.status = "303"

\* C5: a request to /login with a code whose exchange fails (rejected, call
\* error, unreadable body) is passed through: no status, no redirect, no
\* Set-Cookie, and no token validation or refresh is attempted.
C5_FailedLoginPassesThrough ==
    (/\ Done
     /\ request.uri = Login
     /\ Truthy(loginCode)
     /\ CallSettled("authorization_code", "error"))
        => /\ IsPassThrough
           /\ response.location = <<>>
           /\ checked = "no"
           /\ Len(calls) = 1

C5_Witness ==
    /\ Done
    /\ request.uri = Login
    /\ loginCode = Code1
    /\ resp.ok
    /\ ~resp.body.json
    /\ CallSettled("authorization_code", "error")
    /\ Truthy(cookies.refresh_token)

C7_NoRecoveryRedirectsToIdp ==
    (/\ Done
     /\ request.uri # Login
     /\ ~Truthy(cookies.id_token) \/ checked = "threw"
     /\ ~Truthy(cookies.refresh_token) \/ CallSettled("refresh_token", "error"))
        => /\ response.kind = "response"
           /\ response.status = "303"
           /\ response.location = ExpectedIdpLocation
           /\ response.setCookie = <<>>

C7_Witness ==
    /\ Done
    /\ request.uri # Login
    /\ checked = "threw"
    /\ CallSettled("refresh_token", "error")
    /\ resp.ok
    /\ response.status = "303"

\* C8: a request to /login without a (non-empty) code is passed through at
\* once whatever its cookies: no token is validated and nothing is called.
C8_LoginPagePassesThrough ==
    (/\ pc # "idle"
     /\ request.uri = Login
     /\ ~Truthy(loginCode))
        => /\ Done
           /\ IsPassThrough
           /\ calls = <<>>
           /\ checked = "no"

C8_Witness ==
    /\ Done
    /\ request.uri = Login
    /\ loginCode = <<>>
    /\ ValidIdToken(cookies.id_token)
    /\ Truthy(cookies.refresh_token)

\* C9: a response carries Set-Cookie only when a token-endpoint call of the
\* same invocation succeeded, and then the whole set of that exchange (three
\* for the code exchange, two for the refresh); a failed or aborted invocation
\* carries none.
C9_CookiesOnlyAfterSuccess ==
    /\ response.setCookie # <<>> =>
          /\ Done
          /\ response.status = "307"
          /\ calls # <<>>
          /\ calls[Len(calls)].result = "ok"
          /\ \/ /\ calls[Len(calls)].op = "authorization_code"
                /\ calls[Len(calls)].arg = loginCode
                /\ CookieNamesOf(response.setCookie)
                      = <<"id_token", "access_token", "refresh_token">>
             \/ /\ calls[Len(calls)].op = "refresh_token"
                /\ calls[Len(calls)].arg = cookies.refresh_token
                /\ CookieNamesOf(response.setCookie) = <<"id_token", "access_token">>
    /\ pc = "aborted" => response = NoResponse
    /\ (Done /\ ~CallSettled("authorization_code", "ok") /\ ~CallSettled("refresh_token", "ok"))
          => response.setCookie = <<>>

C9_Witness ==
    /\ pc = "aborted"
    /\ request.uri # Login
    /\ Truthy(cookies.refresh_token)
    /\ cookies.refresh_token \in srvRefresh

\* C10: whatever the upstream calls do, a finished invocation returned one of
\* the response decisions (pass-through, the 307 with cookies, the 303 to the
\* identity provider) and never an error; a suspended one can always go on.
C10_AlwaysADecision ==
    /\ Done =>
          \/ IsPassThrough
          \/ /\ response.kind = "response"
             /\ response.status = "307"
             /\ response.setCookie # <<>>
          \/ /\ response.kind = "response"
             /\ response.status = "303"
             /\ response.location = ExpectedIdpLocation
             /\ response.setCookie = <<>>
    /\ pc \in Suspended =>
          ENABLED (CodeFetch \/ CodeJson \/ JwtVerify \/ JwksFetch \/ RefreshFetch \/ RefreshJson)

C10_Witness ==
    /\ Done
    /\ checked = "threw"
    /\ CallSettled("jwks", "error")
    /\ CallSettled("refresh_token", "error")
    /\ ~resp.ok
    /\ ~resp.body.json

\* A token that verifies in everything but its use: signature, issuer, audience
\* and expiry are good and token_use is not "id".
VerifiesButNotId(tok) ==
    LET p == JwtPayload(tok)
    IN /\ Truthy(tok)
       /\ p.sig
       /\ p.iss = cognitoIssuer
       /\ p.aud = CLIENT_ID
       /\ p.exp > now
       /\ p.token_use # "id"

\* C11: off /login, an id_token cookie that verifies in everything but its
\* token_use (an access token in its place) never passes validation and never
\* gets the request passed through: the handler goes on to the refresh attempt
\* (the 307 when it succeeds) or to the 303 to the identity provider.
C11_WrongUseRejected ==
    (/\ pc \notin {"idle", "aborted"}
     /\ request.uri # Login
     /\ VerifiesButNotId(cookies.id_token))
        => /\ checked # "passed"
           /\ pc \in {"jwt_verify", "jwks_fetch"} => checked = "pending"
           /\ pc \in {"refresh_fetch", "refresh_json"} =>
                 checked = "threw" /\ Truthy(cookies.refresh_token)
           /\ Done =>
                 /\ checked = "threw"
                 /\ ~IsPassThrough
                 /\ response.kind = "response"
                 /\ \/ response.status = "307" /\ CallSettled("refresh_token", "ok")
                    \/ response.status = "303" /\ response.location = ExpectedIdpLocation

C11_Witness ==
    /\ Done
    /\ request.uri = <<"/">>
    /\ cookies.id_token = IdAccess
    /\ jwks = "warm"
    /\ ~CallMade("jwks")
    /\ checked = "threw"
    /\ response.status = "303"

\* The request in progress is the browser's next one after the 307 of a code
\* exchange, to a protected path, carrying exactly that response's cookies,
\* and the identity token then issued is a genuine one that has not expired.
SentBackAfterLogin ==
    /\ Done
    /\ nav.state = "waiting"
    /\ nav.after = "login"
    /\ request.uri # Login
    /\ Len(request.cookie) = 1
    /\ request.cookie[1] = [i \in 1..Len(nav.setCookie) |->
                               Pair(nav.setCookie[i].name, nav.setCookie[i].value)]
    /\ ValidIdToken(nav.issued)

C13_GateFollowsAllowList ==
    (signup.pc = "done" /\ signup.ssm # "error")
        => /\ signup.threw <=> signup.email \notin NewSet(signup.configured)
           /\ ~signup.threw => signup.response = Confirmed

TokenCalls == {i \in 1..Len(calls) : calls[i].op \in {"authorization_code", "refresh_token"}}

\* How far down the handler's cases an invocation is: the code exchange, the
\* validation, the refresh, the return.
Stage(p) ==
    CASE p \in {"code_fetch", "code_json"}       -> 1
      [] p \in {"jwt_verify", "jwks_fetch"}      -> 2
      [] p \in {"refresh_fetch", "refresh_json"} -> 3
      [] OTHER                                   -> 4

InInvocation == pc \notin {"idle", "aborted"} /\ pc' \notin {"idle", "aborted"}

\* C14: within one invocation there is at most one call to the token endpoint
\* (a code exchange or a refresh, never both), no upstream call is made
\* twice, the token is validated at most once, and the handler only moves
\* down its cases: a settled call or validation is never gone back to.
C14_NoRetry ==
    /\ [](/\ Cardinality(TokenCalls) <= 1
          /\ \A i, j \in 1..Len(calls) : calls[i].op = calls[j].op => i = j
          /\ CallMade("authorization_code") => Len(calls) = 1 /\ checked = "no"
          /\ \A i \in 1..Len(calls) : calls[i].result = "pending" => i = Len(calls)
          /\ pc \in {"jwt_verify", "jwks_fetch"} => checked = "pending" /\ TokenCalls = {})
    /\ [][InInvocation =>
             /\ Stage(pc') >= Stage(pc)
             /\ Stage(pc) = 1 => Stage(pc') \in {1, 4}
             /\ checked \in {"passed", "threw"} => checked' = checked
             /\ Len(calls') >= Len(calls)
             /\ \A i \in 1..Len(calls) :
                   /\ calls'[i].op = calls[i].op
                   /\ calls'[i].arg = calls[i].arg
                   /\ calls[i].result # "pending" => calls'[i] = calls[i]]_vars

C14_Witness ==
    /\ Done
    /\ checked = "threw"
    /\ Len(calls) = 2
    /\ CallSettled("jwks", "ok")
    /\ CallSettled("refresh_token", "error")
    /\ response.status = "303"

\* Where a cookie name occurs: the headers that carry it, its places in one.
HeadersWith(hs, n) == {i \in 1..Len(hs) : \E k \in 1..Len(hs[i]) : hs[i][k].name = n}
PlacesIn(h, n) == {k \in 1..Len(h) : h[k].name = n}
Largest(S) == CHOOSE x \in S : \A y \in S : y <= x
Smallest(S) == CHOOSE x \in S : \A y \in S : x <= y

\* The value of the last pair of the name, all headers read in arrival order.
LastSeen(hs, n) ==
    IF HeadersWith(hs, n) = {} THEN Undefined
    ELSE LET h == hs[Largest(HeadersWith(hs, n))]
         IN DecodeAtoms(h[Largest(PlacesIn(h, n))].val)

\* The value of the first pair of the name in the last header that has it.
FirstOfLastHeader(hs, n) ==
    IF HeadersWith(hs, n) = {} THEN Undefined
    ELSE LET h == hs[Largest(HeadersWith(hs, n))]
         IN DecodeAtoms(h[Smallest(PlacesIn(h, n))].val)

\* What the classifier used: the token it validated, the token it sent to the
\* token endpoint.
UsesCookies(id, rt) ==
    /\ checked # "no" <=> Truthy(id)
    /\ checked = "passed" => ValidIdToken(id)
    /\ \A i \in 1..Len(calls) : calls[i].op = "refresh_token" => calls[i].arg = rt
    /\ (Done /\ ~CallMade("refresh_token") /\ checked # "passed") => ~Truthy(rt)

\* C15 as claimed: the merged mapping holds, for every cookie name, the value
\* of its last pair over all Cookie headers in arrival order, and those are
\* the id_token and refresh_token the classifier uses.
C15_LastSeenWins ==
    pc # "idle"
        => /\ \A n \in CookieNames : cookies[n] = LastSeen(request.cookie, n)
           /\ UsesCookies(LastSeen(request.cookie, "id_token"),
                          LastSeen(request.cookie, "refresh_token"))

\* C15 amended: the merged mapping holds, for every cookie name, the value
\* from the last Cookie header that carries the name and, within that header,
\* from the first pair of the name; those are the id_token and refresh_token
\* the classifier uses.
C15_LastHeaderFirstPairWins ==
    pc # "idle"
        => /\ \A n \in CookieNames : cookies[n] = FirstOfLastHeader(request.cookie, n)
           /\ UsesCookies(FirstOfLastHeader(request.cookie, "id_token"),
                          FirstOfLastHeader(request.cookie, "refresh_token"))

C15_Witness ==
    /\ Done
    /\ Len(request.cookie) = 2
    /\ request.cookie[1] = <<Pair("id_token", IdGood), Pair("refresh_token", <<"r2", "%3D">>)>>
    /\ PlacesIn(request.cookie[2], "id_token") = {1, 2}
    /\ cookies.id_token = IdForeign
    /\ cookies.refresh_token = <<>>
    /\ checked = "threw"
    /\ response.status = "303"

ConfigComplete == \A f \in DOMAIN env : Truthy(env[f])

\* C16: whenever the handler is processing a request, every field of its
\* configuration (IDENTITY_DOMAIN, CLIENT_ID, CLIENT_SECRET, TOKEN_REDIRECT,
\* USER_POOL) is non-empty: a bundle with a missing field never classifies a
\* request.
C16_ConfigCompleteBeforeRequests ==
    pc # "idle" => ConfigComplete

\* The decision of an invocation that runs alone: a function of its request,
\* of whether its token validated and of the token endpoint's answer.
Alone(req, valid, answer) ==
    LET c == ParseCookies(req.cookie)
        code == SearchParamsGet(req.params, "code")
    IN IF req.uri = Login /\ Truthy(code)
       THEN IF getNewCredentials(answer).threw THEN PassThrough
            ELSE Redirect("307", <<"/">>, getNewCredentials(answer).value)
       ELSE IF req.uri = Login THEN PassThrough
       ELSE IF Truthy(c.id_token) /\ valid THEN PassThrough
       ELSE IF Truthy(c.refresh_token)
       THEN IF refreshCredentials(answer).threw THEN RedirectToIdp
            ELSE Redirect("307", req.uri, refreshCredentials(answer).value)
       ELSE RedirectToIdp

\* An invocation's constants are computed from its own request, its decision
\* is the one it would take alone, and it fetches the key set at most once.
OnItsOwn(inv) ==
    /\ inv.pc # "idle" =>
          /\ inv.cookies = ParseCookies(inv.request.cookie)
          /\ inv.loginCode = SearchParamsGet(inv.request.params, "code")
          /\ \A i \in 1..Len(inv.calls) :
                /\ inv.calls[i].op = "authorization_code" => inv.calls[i].arg = inv.loginCode
                /\ inv.calls[i].op = "refresh_token" =>
                      inv.calls[i].arg = inv.cookies.refresh_token
    /\ inv.pc = "done" =>
          inv.response = Alone(inv.request, inv.checked = "passed", inv.resp)
    /\ Cardinality({i \in 1..Len(inv.calls) : inv.calls[i].op = "jwks"}) <= 1

\* C17: under every interleaving of two invocations at their awaits, each
\* one's constants, calls and decision are those it would have alone with the
\* same request and the same upstream answers; a validation passes exactly
\* when the keys were at hand (cached by either invocation, or fetched) and
\* checkToken accepts the token; and each invocation fetches the key set at
\* most once, so a cold-start race costs one duplicated fetch at most.
C17_InterleavingsDoNotInterfere ==
    /\ [](OnItsOwn(Current) /\ OnItsOwn(other))
    /\ [][(other' = other /\ checked = "pending" /\ checked' # "pending") =>
             (checked' = "passed" <=>
                /\ \A i \in 1..Len(calls') : calls'[i].op = "jwks" => calls'[i].result = "ok"
                /\ checkToken(cookies.id_token, now))]_vars

\* A cold-start race: this invocation fetched the key set and passed while the
\* other, started on a cold cache too, still awaits its own fetch.
C17_Witness ==
    /\ Done
    /\ checked = "passed"
    /\ CallSettled("jwks", "ok")
    /\ other.pc = "jwks_fetch"
    /\ Len(other.calls) = 1
    /\ other.calls[1].result = "pending"

\* C18: off /login a finished invocation passed the request through exactly
\* when the request carries an id_token cookie and checkToken succeeded on it
\* in this invocation (so the token is signed, from the configured issuer, for
\* the configured audience and of use "id"); whatever the query string, the
\* other cookies and the upstream failures, every other request is answered
\* with a redirect, and nothing is passed before the decision.
C18_AccessGate ==
    /\ (Done /\ request.uri # Login) =>
          /\ IsPassThrough <=> (Truthy(cookies.id_token) /\ checked = "passed")
          /\ response.kind = "request" <=> IsPassThrough
          /\ ~IsPassThrough => response.kind = "response" /\ response.status \in {"303", "307"}
    /\ checked = "passed" =>
          LET p == JwtPayload(cookies.id_token)
          IN p.sig /\ p.iss = cognitoIssuer /\ p.aud = CLIENT_ID /\ p.token_use = "id"
    /\ (request.uri # Login /\ ~Done) => response = NoResponse

C18_Witness ==
    /\ Done
    /\ request.uri = <<"/login/">>
    /\ loginCode = Code1
    /\ cookies.id_token = IdForged
    /\ Truthy(cookies.access_token)
    /\ CallSettled("jwks", "ok")
    /\ CallSettled("refresh_token", "error")
    /\ ~IsPassThrough

\* C19: a browser that has sent a request carrying a refresh_token cookie, and
\* follows every 307 with the cookies it was given, eventually receives an
\* answer that is not a 307 and stays there, whatever tokens the token
\* endpoint hands out (or else a fetch of the key set fails on the way).
C19_RedirectsEnd ==
    (nav.state = "waiting" /\ Truthy(jar.refresh_token))
        ~> (nav.state = "idle" \/ CallSettled("jwks", "error"))

\* The two runs were given the same answers: every upstream call both of them
\* made settled alike, and a token endpoint that answered both answered alike.
SameAnswers ==
    \A i \in 1..Len(calls), j \in 1..Len(twin.inv.calls) :
        calls[i].op = twin.inv.calls[j].op =>
            /\ calls[i].result = twin.inv.calls[j].result
            /\ calls[i].op # "jwks" => resp = twin.inv.resp

Requested(cs) == [i \in 1..Len(cs) |-> [url |-> cs[i].url, op |-> cs[i].op, arg |-> cs[i].arg]]

\* C20: two runs of the handler from the same state, on requests that differ
\* only in the access_token cookie (its value, or whether there is one) and
\* given the same upstream answers, end with the same response, the same
\* validation outcome and the same upstream calls.
C20_AccessTokenNotRead ==
    (/\ Done
     /\ twin.started
     /\ twin.inv.pc = "done"
     /\ SameAnswers)
        => /\ response = twin.inv.response
           /\ checked = twin.inv.checked
           /\ Requested(calls) = Requested(twin.inv.calls)
           /\ cookies.id_token = twin.inv.cookies.id_token
           /\ cookies.refresh_token = twin.inv.cookies.refresh_token

C20_Witness ==
    /\ Done
    /\ twin.started
    /\ twin.inv.pc = "done"
    /\ SameAnswers
    /\ cookies.access_token = IdGood
    /\ twin.inv.cookies.access_token = Undefined
    /\ cookies.id_token = Undefined
    /\ CallSettled("refresh_token", "ok")
    /\ response.status = "307"

====
